---- MODULE Spec2Model ----
(***************************************************************************)
(* A model of the crawl orchestration engine of github-stars-crawler:      *)
(*   - CrawlerService.crawl_repositories (GraphQL path) driving            *)
(*     GitHubClient.search_repositories, which pages through one query     *)
(*     with _execute_query wrapped by async_retry and gated by             *)
(*     RateLimiter.wait_if_needed                      (Spec);             *)
(*   - the async_retry wrapper on its own             (SpecRetry);         *)
(*   - RateLimiter shared by concurrent callers       (SpecRate);          *)
(*   - the star-count partition of the query lists    (SpecPart).          *)
(***************************************************************************)
EXTENDS Integers, Sequences, FiniteSets, TLC

VARIABLES
    \* ---- remote side and inputs of one crawl
    repo,            \* repo[q]: how many items the remote holds for query q
    max_repos,       \* crawl_repositories(max_repos=...)
    \* ---- CrawlerService
    cpc,             \* control point of the crawl
    total_saved,     \* self.total_saved
    total_batches,   \* self.total_batches
    idx,             \* index of the query the for loop is at (0 before the first)
    query_limit,     \* local of crawl_repositories
    result,          \* what crawl_repositories returned (or that it raised)
    \* ---- GitHubClient.search_repositories (one generator per query)
    cursor, total_fetched, batch_size,
    response,        \* result of _execute_query
    batch,           \* the list handed to the consumer by yield
    \* ---- async_retry wrapper around _execute_query
    attempt,
    \* ---- RateLimiter and the clock
    current_limit, now,
    \* ---- observation of the run (not program state)
    upserted,        \* records handed to the loop body (upsert_repositories) so far
    shard_failed,    \* a failed remote request (authorization error, or the
                     \* last retry) ended a query's fetch
    saved_ok,        \* records of the batches whose upsert_repositories returned
    batches_ok,      \* number of those batches
    upsert_failed,   \* a call of upsert_repositories raised
    parse_failed,    \* a node of some page failed to convert to a Repository
    \* ---- async_retry on its own (SpecRetry): decorator arguments, wrapper state
    max_attempts, initial_delay, max_delay, exponential_base, jitter,
    rpc,             \* control point of the wrapper
    r_attempt,       \* the loop variable `attempt`
    last_exception,
    calls,           \* observation: outcome of each invocation of func, in order
    sleeps,          \* observation: each asyncio.sleep(delay) of the wrapper, in order
    outcome,         \* what the wrapper returned or raised
    \* ---- one RateLimiter shared by concurrent callers (SpecRate)
    locked,          \* self._lock is held
    cstate,          \* per caller: "idle", "waiting" (for the lock), "sleeping"
                     \* (inside wait_if_needed), "inflight" (its request is out),
                     \* "status" (its get_rate_limit_status request is out)
    wake,            \* per caller: when its asyncio.sleep is due
    seen,            \* observation, per caller: the limit it read under the lock
    ahead,           \* observation, per caller: that limit's reset instant was
                     \* ahead of the clock when it was read
    slept,           \* observation, per caller: it slept inside wait_if_needed
    waited,          \* observation: reset instants some caller has slept out
    pass_log,        \* observation: reset instant of the stored limit at each
                     \* return of wait_if_needed made while that limit was
                     \* exhausted and its reset instant not reached
    gated,           \* observation, per caller: wait_if_needed has returned to
                     \* it since its last request was answered
    \* ---- the query lists against a star count (SpecPart)
    qlist,           \* which list: "optimized" or "default"
    star,            \* a star count
    \* ---- one RepositoryDatabase and its connection (SpecStore)
    backend,         \* "sqlite" or "postgres"
    repositories,    \* the table as the connection reads it
    committed,       \* the table as of the last commit
    aborted,         \* postgres: the open transaction is in the failed state
    sclock,          \* the database's clock (CURRENT_TIMESTAMP, NOW())
    rs,              \* a run's use of the store: "none", "running", "returned"
    start_count,     \* the run's first get_repository_count()
    at_start,        \* observation: the ids stored when the run started
    fresh,           \* observation: the ids the run wrote that were not in at_start
    run_result       \* what the run reported: status, final_count, new_repos

crawlVars == <<repo, max_repos, cpc, total_saved, total_batches, idx, query_limit,
               result, cursor, total_fetched, batch_size, response, batch, attempt,
               upserted, shard_failed, saved_ok, batches_ok, upsert_failed,
               parse_failed>>

limVars == <<current_limit, now>>

retryVars == <<max_attempts, initial_delay, max_delay, exponential_base, jitter,
               rpc, r_attempt, last_exception, calls, sleeps, outcome>>

rateVars == <<locked, cstate, wake, seen, ahead, slept, waited, pass_log, gated>>

partVars == <<qlist, star>>

storeVars == <<backend, repositories, committed, aborted, sclock, rs, start_count,
               at_start, fresh, run_result>>

\* what the steps of each specification leave alone
notCrawlVars == <<retryVars, rateVars, partVars, storeVars>>
notRetryVars == <<crawlVars, limVars, rateVars, partVars, storeVars>>
notRateVars == <<crawlVars, retryVars, partVars, storeVars>>
notPartVars == <<crawlVars, limVars, retryVars, rateVars, storeVars>>
notStoreVars == <<crawlVars, limVars, retryVars, rateVars, partVars>>

-----------------------------------------------------------------------------
(* Bounds of the model *)

MaxItems == 4        \* most items the remote holds for one query
MaxBad == 1          \* most items of one page that fail to parse
NumQueries == 2      \* length of the query list handed to crawl_repositories
MaxTarget == 4       \* largest max_repos tried

(* Program values, scaled down so that every branch is reached within the
   bounds: the code has repos_per_query = 1000 and Config.batch_size = 100. *)
repos_per_query == 3
config_batch_size == 2

(* Program constants *)
RateBuffer == 100        \* RateLimit.is_exhausted: remaining < 100
SafetyMargin == 5        \* asyncio.sleep(wait_time + 5)
ExecMaxAttempts == 3     \* @async_retry(max_attempts=3, initial_delay=2.0)
ExecInitialDelay == 2
DefaultMaxDelay == 60
DefaultBase == 2

None == 0                \* the cursor None; endCursor values are item offsets >= 1

Min(a, b) == IF a <= b THEN a ELSE b
Max(a, b) == IF a >= b THEN a ELSE b

-----------------------------------------------------------------------------
(* Errors.  A message is a sequence of words; str(e).lower() lowers each. *)

Lower(w) ==
    CASE w = "Unauthorized" -> "unauthorized"
      [] w = "FORBIDDEN"    -> "forbidden"
      [] w = "Bad"          -> "bad"
      [] w = "Credentials"  -> "credentials"
      [] OTHER              -> w

LowerMsg(m) == [i \in 1..Len(m) |-> Lower(m[i])]

\* any(x in error_message for x in ['unauthorized', 'forbidden', 'bad credentials'])
IsAuthCaseSensitive(m) ==
    \/ \E i \in 1..Len(m) : m[i] \in {"unauthorized", "forbidden"}
    \/ \E i \in 1..(Len(m) - 1) : m[i] = "bad" /\ m[i + 1] = "credentials"
IsAuthError(m) ==
    LET l == LowerMsg(m) IN
    \/ \E i \in 1..Len(l) : l[i] \in {"unauthorized", "forbidden"}
    \/ \E i \in 1..(Len(l) - 1) : l[i] = "bad" /\ l[i + 1] = "credentials"

Exc(type, msg) == [type |-> type, msg |-> msg]

\* RetryException(f"Failed after {max_attempts} attempts. Last error: {last_exception}")
RetryExceptionOf(last_msg) ==
    Exc("RetryException", <<"Failed", "after", "attempts.", "Last", "error:">> \o last_msg)

\* datetime arithmetic between an offset-aware reset_at and the naive datetime.now()
TzError == Exc("TypeError", <<"can't", "subtract", "offset-naive", "and", "offset-aware", "datetimes">>)

\* delay = min(initial_delay * (exponential_base ** attempt), max_delay)
BackoffUncapped(initial, base, maxd, k) == initial * (base ^ k)
Backoff(initial, base, maxd, k) == Min(initial * (base ^ k), maxd)

\* delay * (0.5 + random.random()): the factor in thousandths, sampled at the
\* ends and the middle of [0.5, 1.5)
JitterFactors == {500, 1000, 1499}
Jittered(d) == {(d * f) \div 1000 : f \in JitterFactors}

-----------------------------------------------------------------------------
(* RateLimit / RateLimiter *)

NoLimit == [known |-> FALSE, remaining |-> 0, reset_at |-> 0, aware |-> FALSE]

\* RateLimiter.update: the stored limit is replaced by the report; reset_at is
\* parsed by fromisoformat, offset-aware when the text carries 'Z' or an offset
Update(report) ==
    [known |-> TRUE, remaining |-> report.remaining,
     reset_at |-> report.reset_at, aware |-> report.aware]

IsExhaustedWide(l) == l.remaining < RateBuffer * 10
IsExhausted(l) == l.remaining < RateBuffer

\* RateLimit.seconds_until_reset, for a naive reset_at
SecondsUntilReset(l, t) == Max(0, l.reset_at - t)

\* the branch wait_if_needed takes on limit l at time t:
\* "pass" (no sleep), "sleep" (until t + wait_time + 5), "raise" (TypeError)
GateNoMargin(l, t) ==
    IF ~l.known \/ ~IsExhausted(l) THEN [kind |-> "pass", until |-> t]
    ELSE IF l.aware THEN [kind |-> "raise", until |-> t]
    ELSE IF SecondsUntilReset(l, t) > 0
         THEN [kind |-> "sleep", until |-> t + SecondsUntilReset(l, t)]
         ELSE [kind |-> "pass", until |-> t]
Gate(l, t) ==
    IF ~l.known \/ ~IsExhausted(l) THEN [kind |-> "pass", until |-> t]
    ELSE IF l.aware THEN [kind |-> "raise", until |-> t]
    ELSE IF SecondsUntilReset(l, t) > 0
         THEN [kind |-> "sleep", until |-> t + SecondsUntilReset(l, t) + SafetyMargin]
         ELSE [kind |-> "pass", until |-> t]

\* RateLimiter.get_status raises when seconds_until_reset does
GetStatusRaises(l) == l.known /\ l.aware

\* The crawl reads the clock only through seconds_until_reset, so Spec keeps
\* the origin of the clock at the present: `now` stays 0 and, when d seconds
\* pass, the stored reset instant moves d seconds closer (0: it is reached).
Elapse(l, d) == [l EXCEPT !.reset_at = Max(@ - d, 0)]

-----------------------------------------------------------------------------
(* The remote search API *)

Queries == 1..NumQueries

\* databaseId of the i-th item of query q: the queries match disjoint items
RepoId(q, i) == (q - 1) * MaxItems + i

\* the rateLimit object of a response, or its absence: remaining on either
\* side of the buffer, the reset instant one second ahead of the response
NoReport == [present |-> FALSE, remaining |-> 0, reset_at |-> 0, aware |-> FALSE]
Reports(t) ==
    {NoReport} \cup
    [present : {TRUE}, remaining : {RateBuffer - 1, RateBuffer + 1},
     reset_at : {t + 1}, aware : BOOLEAN]

\* search(query, first, after): at most `first` nodes after the cursor; the
\* nodes at the positions in `bad` lack a field from_github_response needs
Page(q, first, after, bad) ==
    LET last == Min(after + first, repo[q])
    IN [nodes       |-> [i \in 1..Max(last - after, 0) |->
                            [id |-> RepoId(q, after + i), ok |-> i \notin bad]],
        hasNextPage |-> last < repo[q],
        endCursor   |-> IF last > after THEN last ELSE None]

\* the parse loop of search_repositories: the records of the nodes that convert
Ids(nodes) == [i \in 1..Len(nodes) |-> nodes[i].id]
IsOk(node) == node.ok
ParsedReversed(nodes) ==
    LET p == Ids(SelectSeq(nodes, IsOk)) IN [i \in 1..Len(p) |-> p[Len(p) + 1 - i]]
Parsed(nodes) == Ids(SelectSeq(nodes, IsOk))

NoResponse == [nodes |-> <<>>, hasNextPage |-> FALSE, endCursor |-> None]

-----------------------------------------------------------------------------
(* CrawlerService.crawl_repositories, GraphQL path *)

NoResult == [status |-> "none", total_crawled |-> 0, total_batches |-> 0, error |-> <<>>]
Success == [status |-> "success", total_crawled |-> total_saved,
            total_batches |-> total_batches, error |-> <<>>]
\* return {'success': False, 'error': str(e), 'total_crawled': ..., 'total_batches': ...}
FailureCountsBatch(e) == [status |-> "failure", total_crawled |-> total_saved + Len(batch),
                          total_batches |-> total_batches + 1, error |-> e.msg]
Failure(e) == [status |-> "failure", total_crawled |-> total_saved,
               total_batches |-> total_batches, error |-> e.msg]
Raised(e) == [status |-> "raised", total_crawled |-> 0, total_batches |-> 0, error |-> e.msg]

DbError == Exc("Exception", <<"database", "is", "locked">>)

\* query_limit = min(repos_per_query, max_repos - self.total_saved)
QueryLimitNoTarget(target, saved) == repos_per_query
QueryLimitNoCap(target, saved) == target - saved
QueryLimitOneMore(target, saved) == Min(repos_per_query, target - saved + 1)
QueryLimit(target, saved) == Min(repos_per_query, target - saved)

CrawlInit ==
    /\ repo \in [Queries -> 0..MaxItems]
    /\ max_repos \in 0..MaxTarget
    /\ cpc = "call"
    /\ total_saved = 0
    /\ total_batches = 0
    /\ idx = 0
    /\ query_limit = 0
    /\ result = NoResult
    /\ cursor = None
    /\ total_fetched = 0
    /\ batch_size = config_batch_size
    /\ response = NoResponse
    /\ batch = <<>>
    /\ attempt = 0
    /\ current_limit = NoLimit
    /\ now = 0
    /\ upserted = 0
    /\ shard_failed = FALSE
    /\ saved_ok = 0
    /\ batches_ok = 0
    /\ upsert_failed = FALSE
    /\ parse_failed = FALSE

LimiterIdle == current_limit = NoLimit /\ now = 0

genVars == <<cursor, total_fetched, batch_size, response, batch, attempt>>
storeObs == <<saved_ok, batches_ok, upsert_failed>>
obsVars == <<upserted, shard_failed, storeObs, parse_failed>>

\* the generator object is finished: its locals are gone
GenEnd ==
    /\ cpc' = "loop"
    /\ cursor' = None
    /\ total_fetched' = 0
    /\ batch_size' = config_batch_size
    /\ response' = NoResponse
    /\ batch' = <<>>
    /\ attempt' = 0
inputVars == <<repo, max_repos>>

\* start_count = await self.database.get_repository_count(), outside the try
CrawlStart ==
    /\ cpc = "call"
    /\ cpc' = "loop"
    /\ UNCHANGED <<notCrawlVars, inputVars, total_saved, total_batches, idx, query_limit, result,
                   genVars, current_limit, now, obsVars>>

CrawlStartRaises ==
    /\ cpc = "call"
    /\ cpc' = "returned"
    /\ result' = Raised(DbError)
    /\ UNCHANGED <<notCrawlVars, inputVars, total_saved, total_batches, idx, query_limit,
                   genVars, current_limit, now, obsVars>>

\* one iteration of `for idx, query in enumerate(queries, 1)` up to the first
\* step of the generator, or the end of the loop
NextQuery ==
    /\ cpc = "loop"
    /\ IF idx = NumQueries \/ total_saved >= max_repos
       THEN /\ cpc' = "final"
            /\ UNCHANGED <<idx, query_limit, genVars>>
       ELSE /\ idx' = idx + 1
            /\ query_limit' = QueryLimit(max_repos, total_saved)
            /\ cursor' = None
            /\ total_fetched' = 0
            /\ batch_size' = config_batch_size
            /\ cpc' = "gen"
            /\ UNCHANGED <<response, batch, attempt>>
    /\ UNCHANGED <<notCrawlVars, inputVars, total_saved, total_batches, result, current_limit, now,
                   obsVars>>

\* max_repos = None, the default of search_repositories
Unlimited == -1

\* `if max_repos`: neither None nor 0
Truthy(n) == n # 0 /\ n # Unlimited

\* batch_size = min(batch_size, max_repos - total_fetched)
NextBatchSizeFixed(size, limit, fetched) == size
NextBatchSize(size, limit, fetched) ==
    IF Truthy(limit) THEN Min(size, limit - fetched) ELSE size

\* top of `while True` in search_repositories
GenLoop ==
    /\ cpc = "gen"
    /\ IF Truthy(query_limit) /\ total_fetched >= query_limit
       THEN GenEnd
       ELSE /\ batch_size' = NextBatchSize(batch_size, query_limit, total_fetched)
            /\ attempt' = 0
            /\ cpc' = "attempt"
            /\ UNCHANGED <<cursor, total_fetched, response, batch>>
    /\ UNCHANGED <<notCrawlVars, inputVars, total_saved, total_batches, idx, query_limit, result,
                   current_limit, now, obsVars>>

\* what session.execute raises when the request fails
RemoteErrors == {Exc("Exception", <<"Bad", "credentials">>),
                 Exc("Exception", <<"Server", "disconnected">>)}

\* async_retry's except clause for the exception e of attempt `attempt`;
\* whatever it raises reaches `except Exception: break` in search_repositories
OnAttemptExceptionNoLimit(e, gate_sleep) ==
    IF IsAuthError(e.msg)
    THEN /\ GenEnd
         /\ shard_failed' = (shard_failed \/ e \in RemoteErrors)
         /\ current_limit' = Elapse(current_limit, gate_sleep)
    ELSE /\ \E d \in Jittered(Backoff(ExecInitialDelay, DefaultBase, DefaultMaxDelay, attempt)) :
                current_limit' = Elapse(current_limit, gate_sleep + d)
         /\ attempt' = Min(attempt + 1, ExecMaxAttempts)
         /\ UNCHANGED <<cpc, shard_failed, cursor, total_fetched, batch_size, response,
                        batch>>
OnAttemptException(e, gate_sleep) ==
    IF IsAuthError(e.msg) \/ attempt >= ExecMaxAttempts - 1
    THEN /\ GenEnd
         /\ shard_failed' = (shard_failed \/ e \in RemoteErrors)
         /\ current_limit' = Elapse(current_limit, gate_sleep)
    ELSE /\ \E d \in Jittered(Backoff(ExecInitialDelay, DefaultBase, DefaultMaxDelay, attempt)) :
                current_limit' = Elapse(current_limit, gate_sleep + d)
         /\ attempt' = attempt + 1
         /\ UNCHANGED <<cpc, shard_failed, cursor, total_fetched, batch_size, response,
                        batch>>

\* wait_if_needed raises before the request is sent
AttemptGateRaises ==
    /\ cpc = "attempt"
    /\ Gate(current_limit, now).kind = "raise"
    /\ OnAttemptException(TzError, 0)
    /\ UNCHANGED <<notCrawlVars, inputVars, total_saved, total_batches, idx, query_limit, result, now,
                   upserted, storeObs, parse_failed>>

\* the request is sent and session.execute raises
AttemptFails ==
    /\ cpc = "attempt"
    /\ Gate(current_limit, now).kind # "raise"
    /\ \E e \in RemoteErrors : OnAttemptException(e, Gate(current_limit, now).until - now)
    /\ UNCHANGED <<notCrawlVars, inputVars, total_saved, total_batches, idx, query_limit, result, now,
                   upserted, storeObs, parse_failed>>

\* the request is sent and answered; the rate limiter takes the report
AttemptSucceeds ==
    /\ cpc = "attempt"
    /\ Gate(current_limit, now).kind # "raise"
    /\ \E bad \in SUBSET (1..Min(batch_size, repo[idx] - cursor)) :
          /\ Cardinality(bad) <= MaxBad
          /\ response' = Page(idx, batch_size, cursor, bad)
    /\ \E rep \in Reports(now) :
          current_limit' = IF rep.present THEN Update(rep)
                           ELSE Elapse(current_limit, Gate(current_limit, now).until - now)
    /\ cpc' = "parse"
    /\ UNCHANGED <<notCrawlVars, inputVars, total_saved, total_batches, idx, query_limit, result,
                   cursor, total_fetched, batch_size, batch, attempt, now, upserted,
                   shard_failed, storeObs, parse_failed>>

\* from the result to the yield (or to the break that ends the generator)
ParsePage ==
    /\ cpc = "parse"
    /\ IF Len(response.nodes) = 0 \/
          (Len(Parsed(response.nodes)) > 0 /\ GetStatusRaises(current_limit))
       THEN GenEnd
       ELSE /\ total_fetched' = total_fetched + Len(Parsed(response.nodes))
            /\ IF Len(Parsed(response.nodes)) > 0
               THEN cpc' = "upsert" /\ batch' = Parsed(response.nodes)
               ELSE cpc' = "paginate" /\ UNCHANGED batch
            /\ response' = [response EXCEPT !.nodes = <<>>]  \* nodes is not read again
            /\ UNCHANGED <<cursor, batch_size, attempt>>
    /\ parse_failed' = (parse_failed \/ Len(Parsed(response.nodes)) < Len(response.nodes))
    /\ UNCHANGED <<notCrawlVars, inputVars, total_saved, total_batches, idx, query_limit, result,
                   current_limit, now, upserted, shard_failed, storeObs>>

\* an exception raised inside the try of crawl_repositories leaves both loops
\* for the except clause, which returns the failure result
OnCrawlExceptionSkipsBatch(e) == cpc' = "paginate" /\ UNCHANGED result
OnCrawlException(e) == cpc' = "returned" /\ result' = Failure(e)

\* the body of `async for batch in ...`
Upsert ==
    /\ cpc = "upsert"
    /\ upserted' = upserted + Len(batch)
    /\ saved_ok' = saved_ok + Len(batch)
    /\ batches_ok' = batches_ok + 1
    /\ total_saved' = total_saved + Len(batch)
    /\ total_batches' = total_batches + 1
    /\ batch' = <<>>                                     \* batch is not read again
    /\ cpc' = "paginate"
    /\ UNCHANGED <<notCrawlVars, inputVars, idx, query_limit, result, cursor, total_fetched,
                   batch_size, response, attempt, current_limit, now, shard_failed,
                   upsert_failed, parse_failed>>

UpsertRaises ==
    /\ cpc = "upsert"
    /\ upserted' = upserted + Len(batch)
    /\ upsert_failed' = TRUE
    /\ OnCrawlException(DbError)
    /\ UNCHANGED <<notCrawlVars, inputVars, total_saved, total_batches, idx, query_limit, genVars,
                   current_limit, now, shard_failed, saved_ok, batches_ok, parse_failed>>

\* the generator resumes after the yield: pageInfo
PaginateKeepsCursor ==
    /\ cpc = "paginate"
    /\ IF ~response.hasNextPage
       THEN GenEnd
       ELSE /\ cpc' = "gen"
            /\ UNCHANGED <<cursor, total_fetched, batch_size, response, batch, attempt>>
    /\ UNCHANGED <<notCrawlVars, inputVars, total_saved, total_batches, idx, query_limit, result,
                   current_limit, now, obsVars>>
Paginate ==
    /\ cpc = "paginate"
    /\ IF ~response.hasNextPage
       THEN GenEnd
       ELSE /\ cpc' = "gen"
            /\ cursor' = response.endCursor
            /\ UNCHANGED <<total_fetched, batch_size, response, batch, attempt>>
    /\ UNCHANGED <<notCrawlVars, inputVars, total_saved, total_batches, idx, query_limit, result,
                   current_limit, now, obsVars>>

\* final_count = await self.database.get_repository_count(); return {...}
Finish ==
    /\ cpc = "final"
    /\ result' = Success
    /\ cpc' = "returned"
    /\ UNCHANGED <<notCrawlVars, inputVars, total_saved, total_batches, idx, query_limit, genVars,
                   current_limit, now, obsVars>>

FinishRaises ==
    /\ cpc = "final"
    /\ OnCrawlException(DbError)
    /\ UNCHANGED <<notCrawlVars, inputVars, total_saved, total_batches, idx, query_limit, genVars,
                   current_limit, now, obsVars>>

vars == <<crawlVars, limVars, retryVars, rateVars, partVars, storeVars>>

NumCallers == 2          \* concurrent callers of one RateLimiter
Callers == 1..NumCallers

RateIdle ==
    /\ locked = FALSE
    /\ cstate = [c \in Callers |-> "unused"]
    /\ wake = [c \in Callers |-> 0]
    /\ seen = [c \in Callers |-> NoLimit]
    /\ ahead = [c \in Callers |-> FALSE]
    /\ slept = [c \in Callers |-> FALSE]
    /\ waited = {}
    /\ pass_log = <<>>
    /\ gated = [c \in Callers |-> FALSE]

PartIdle == qlist = "unused" /\ star = 0

NoRun == [status |-> "none", final_count |-> 0, new_repos |-> 0]

StoreIdle ==
    /\ backend = "unused"
    /\ repositories = {}
    /\ committed = {}
    /\ aborted = FALSE
    /\ sclock = 0
    /\ rs = "unused"
    /\ start_count = 0
    /\ at_start = {}
    /\ fresh = {}
    /\ run_result = NoRun

RetryIdle ==
    /\ max_attempts = 0 /\ initial_delay = 0 /\ max_delay = 0
    /\ exponential_base = 0 /\ jitter = FALSE
    /\ rpc = "unused" /\ r_attempt = 0 /\ last_exception = Exc("None", <<"None">>)
    /\ calls = <<>> /\ sleeps = <<>>
    /\ outcome = [kind |-> "none", exc |-> Exc("None", <<"None">>)]

CrawlNext ==
    \/ CrawlStart
    \/ CrawlStartRaises
    \/ NextQuery
    \/ GenLoop
    \/ AttemptGateRaises
    \/ AttemptFails
    \/ AttemptSucceeds
    \/ ParsePage
    \/ Upsert
    \/ UpsertRaises
    \/ Paginate
    \/ Finish
    \/ FinishRaises

Init == CrawlInit /\ RetryIdle /\ RateIdle /\ PartIdle /\ StoreIdle

Next == CrawlNext

Spec == Init /\ [][Next]_vars

\* crawl_repositories runs as one asyncio task: whenever the awaited request,
\* sleep or store call completes the task is resumed, so a step that can be
\* taken is taken.  The runs start from the extreme inputs: every query
\* matches nothing or MaxItems repositories, the target is 1 or MaxTarget
InitLive ==
    /\ CrawlInit /\ RetryIdle /\ RateIdle /\ PartIdle /\ StoreIdle
    /\ repo \in [Queries -> {0, MaxItems}]
    /\ max_repos \in {1, MaxTarget}

SpecLive == InitLive /\ [][Next]_vars /\ WF_vars(Next)

-----------------------------------------------------------------------------
(* async_retry on its own: any decorator arguments, any wrapped operation *)

MaxAttemptsTried == 3    \* largest max_attempts tried

\* messages of the errors the wrapped operation raises
AuthMessages == {<<"401", "Unauthorized">>, <<"FORBIDDEN">>, <<"Bad", "Credentials">>}
OtherMessages == {<<"Bad", "Gateway">>, <<"Server", "disconnected">>}

NoException == Exc("None", <<"None">>)       \* last_exception = None
NoOutcome == [kind |-> "none", exc |-> NoException]

CrawlIdle ==
    /\ repo = [q \in Queries |-> 0]
    /\ max_repos = 0
    /\ cpc = "unused"
    /\ total_saved = 0
    /\ total_batches = 0
    /\ idx = 0
    /\ query_limit = 0
    /\ result = NoResult
    /\ cursor = None
    /\ total_fetched = 0
    /\ batch_size = config_batch_size
    /\ response = NoResponse
    /\ batch = <<>>
    /\ attempt = 0
    /\ upserted = 0
    /\ shard_failed = FALSE
    /\ saved_ok = 0
    /\ batches_ok = 0
    /\ upsert_failed = FALSE
    /\ parse_failed = FALSE

RetryInit ==
    /\ max_attempts \in 0..MaxAttemptsTried
    /\ initial_delay \in {1000, 2000}            \* milliseconds
    /\ max_delay \in {3000, 60000}
    /\ exponential_base \in {2, 3}
    /\ jitter \in BOOLEAN
    /\ rpc = "loop"
    /\ r_attempt = 0
    /\ last_exception = NoException
    /\ calls = <<>>
    /\ sleeps = <<>>
    /\ outcome = NoOutcome

\* `for attempt in range(max_attempts)`: is there an iteration for k
InRangeInclusive(k, n) == k <= n
InRange(k, n) == k < n

\* `if attempt < max_attempts - 1`: a sleep and another iteration follow
SleepsAfterEarly(k, n) == k < n - 2
SleepsAfter(k, n) == k < n - 1

\* return await func(*args, **kwargs)
RetryCallReturns ==
    /\ rpc = "loop"
    /\ InRange(r_attempt, max_attempts)
    /\ calls' = Append(calls, [kind |-> "ok", msg |-> <<>>])
    /\ outcome' = [kind |-> "returned", exc |-> NoException]
    /\ rpc' = "done"
    /\ UNCHANGED <<notRetryVars, max_attempts, initial_delay, max_delay,
                   exponential_base, jitter, r_attempt, last_exception, sleeps>>

\* func raises e: the except clause, up to the next invocation
RetryCallRaises ==
    /\ rpc = "loop"
    /\ InRange(r_attempt, max_attempts)
    /\ \E m \in AuthMessages \cup OtherMessages :
        LET e == Exc("Exception", m)
            delay == Backoff(initial_delay, exponential_base, max_delay, r_attempt)
        IN /\ calls' = Append(calls, [kind |-> "raise", msg |-> m])
           /\ last_exception' = e
           /\ IF IsAuthError(m)
              THEN /\ outcome' = [kind |-> "raised", exc |-> e]           \* raise
                   /\ rpc' = "done"
                   /\ UNCHANGED <<r_attempt, sleeps>>
              ELSE /\ IF SleepsAfter(r_attempt, max_attempts)
                      THEN \E d \in (IF jitter THEN Jittered(delay) ELSE {delay}) :
                              sleeps' = Append(sleeps, d)
                      ELSE UNCHANGED sleeps
                   /\ r_attempt' = r_attempt + 1
                   /\ UNCHANGED <<rpc, outcome>>
    /\ UNCHANGED <<notRetryVars, max_attempts, initial_delay, max_delay,
                   exponential_base, jitter>>

\* the loop is over: raise RetryException(... Last error: {last_exception})
RetryExhausted ==
    /\ rpc = "loop"
    /\ ~InRange(r_attempt, max_attempts)
    /\ outcome' = [kind |-> "raised", exc |-> RetryExceptionOf(last_exception.msg)]
    /\ rpc' = "done"
    /\ UNCHANGED <<notRetryVars, max_attempts, initial_delay, max_delay,
                   exponential_base, jitter, r_attempt, last_exception, calls, sleeps>>

RetryNext ==
    \/ RetryCallReturns
    \/ RetryCallRaises
    \/ RetryExhausted

InitRetry == CrawlIdle /\ LimiterIdle /\ RateIdle /\ PartIdle /\ StoreIdle /\ RetryInit

SpecRetry == InitRetry /\ [][RetryNext]_vars

-----------------------------------------------------------------------------
(* Properties of async_retry (SpecRetry) *)

AllFailed(cs, msgs) ==
    \A i \in 1..Len(cs) : cs[i].kind = "raise" /\ cs[i].msg \in msgs

\* C5: an operation that fails on every invocation with a non-authorization
\* error is invoked exactly max_attempts times, never more, and the wrapper
\* then raises RetryException whose message ends with the last error's text.
C5_RetryBound ==
    AllFailed(calls, OtherMessages) =>
        /\ Len(calls) <= max_attempts
        /\ rpc = "done" =>
              /\ Len(calls) = max_attempts
              /\ outcome.kind = "raised"
              /\ outcome.exc.type = "RetryException"
              /\ outcome.exc.msg =
                    <<"Failed", "after", "attempts.", "Last", "error:">> \o
                    (IF calls = <<>> THEN <<"None">> ELSE calls[Len(calls)].msg)

C5_Witness ==
    /\ rpc = "done" /\ max_attempts = 3 /\ Len(calls) = 3
    /\ AllFailed(calls, OtherMessages)
    /\ outcome.exc.type = "RetryException"

\* C6: an invocation that fails with an authorization error (its message has
\* 'unauthorized', 'forbidden' or 'bad credentials', in any case) is the last
\* one: the wrapper re-raises that very error, with no invocation and no
\* sleep after it, on whichever attempt it occurs.
C6_AuthErrorNotRetried ==
    \A i \in 1..Len(calls) :
        (calls[i].kind = "raise" /\ calls[i].msg \in AuthMessages) =>
            /\ i = Len(calls)
            /\ rpc = "done"
            /\ outcome = [kind |-> "raised", exc |-> Exc("Exception", calls[i].msg)]
            /\ Len(sleeps) = i - 1

\* the authorization error came on the second invocation, after one sleep
C6_Witness ==
    /\ Len(calls) = 2 /\ calls[2].kind = "raise" /\ calls[2].msg \in AuthMessages
    /\ Len(sleeps) = 1 /\ rpc = "done"

\* C28: the k-th sleep (k = 0 after the first failed attempt) lasts
\* min(initial_delay * exponential_base^k, max_delay), times a factor in
\* [0.5, 1.5) when jitter is on; without jitter the sleeps never shorten and
\* never exceed max_delay; the final failed attempt is followed by no sleep.
C28_BackoffDelays ==
    /\ \A n \in 1..Len(sleeps) :
          LET d == Min(initial_delay * (exponential_base ^ (n - 1)), max_delay)
          IN IF jitter THEN 2 * sleeps[n] >= d /\ 2 * sleeps[n] < 3 * d
             ELSE sleeps[n] = d
    /\ ~jitter => \A n \in 1..Len(sleeps) :
                     /\ sleeps[n] <= max_delay
                     /\ n > 1 => sleeps[n - 1] <= sleeps[n]
    /\ Len(sleeps) <= Max(max_attempts - 1, 0)
    /\ (rpc = "done" /\ outcome.kind = "raised" /\ outcome.exc.type = "RetryException"
        /\ calls # <<>>) => Len(sleeps) = Len(calls) - 1

\* three failed attempts without jitter: the second sleep is capped at
\* max_delay and nothing is slept after the third failure
C28_Witness ==
    /\ ~jitter
    /\ rpc = "done"
    /\ outcome.exc.type = "RetryException"
    /\ Len(calls) = 3
    /\ Len(sleeps) = 2
    /\ sleeps[1] < max_delay
    /\ sleeps[2] = max_delay
    /\ initial_delay * exponential_base > max_delay

\* C29: when the operation first succeeds on its j-th invocation, after j-1
\* retryable failures, the wrapper returns, having invoked it exactly j times
\* and slept exactly j-1 times, and raises nothing.
C29_SuccessAfterRetries ==
    (calls # <<>> /\ calls[Len(calls)].kind = "ok") =>
        /\ rpc = "done"
        /\ outcome = [kind |-> "returned", exc |-> NoException]
        /\ Len(calls) <= max_attempts
        /\ Len(sleeps) = Len(calls) - 1
        /\ \A i \in 1..(Len(calls) - 1) :
              calls[i].kind = "raise" /\ calls[i].msg \in OtherMessages

\* success on the third invocation, after two failures and two sleeps
C29_Witness ==
    /\ Len(calls) = 3
    /\ calls[3].kind = "ok"
    /\ Len(sleeps) = 2
    /\ outcome.kind = "returned"

-----------------------------------------------------------------------------
(* One RateLimiter shared by concurrent callers, each looping over
   wait_if_needed / request / update as _execute_query does *)

MaxTime == 10            \* the clock stops here
WindowLen == 4           \* length of the server's quota window, in seconds

\* the server's quota window that holds instant t ends at WindowEnd(t)
WindowEnd(t) == ((t \div WindowLen) + 1) * WindowLen

\* the rateLimit object of a response received at t: resetAt is the end of the
\* window in which the server answered
RateReports(t) ==
    {NoReport} \cup
    [present : {TRUE}, remaining : {RateBuffer - 1, RateBuffer, RateBuffer + 1},
     reset_at : {WindowEnd(t)}, aware : BOOLEAN]

RateInit ==
    /\ locked = FALSE
    /\ cstate = [c \in Callers |-> "idle"]
    /\ wake = [c \in Callers |-> 0]
    /\ seen = [c \in Callers |-> NoLimit]
    /\ ahead = [c \in Callers |-> FALSE]
    /\ slept = [c \in Callers |-> FALSE]
    /\ waited = {}
    /\ pass_log = <<>>
    /\ gated = [c \in Callers |-> FALSE]

\* `async with self._lock`: the lock can be taken
LockFreeAlways(l) == TRUE
LockFree(l) == ~l

\* the stored limit is exhausted and its reset instant is still ahead
QuotaExhaustedAt(l, t) == l.known /\ l.remaining < RateBuffer /\ l.reset_at > t

LogPass(l, t) == IF QuotaExhaustedAt(l, t) THEN Append(pass_log, l.reset_at) ELSE pass_log

\* wait_if_needed finds the lock held and queues for it
RateBlock(c) ==
    /\ cstate[c] = "idle"
    /\ ~LockFree(locked)
    /\ cstate' = [cstate EXCEPT ![c] = "waiting"]
    /\ UNCHANGED <<notRateVars, limVars, locked, wake, seen, ahead, slept, waited,
                   pass_log, gated>>

\* wait_if_needed takes the lock and runs up to its first suspension: it
\* returns, raises (both release the lock) or starts to sleep holding the lock
RateCheck(c) ==
    /\ cstate[c] \in {"idle", "waiting"}
    /\ LockFree(locked)
    /\ seen' = [seen EXCEPT ![c] = current_limit]
    /\ ahead' = [ahead EXCEPT ![c] = current_limit.reset_at > now]
    /\ LET g == Gate(current_limit, now) IN
       CASE g.kind = "pass" ->
              /\ cstate' = [cstate EXCEPT ![c] = "inflight"]
              /\ pass_log' = LogPass(current_limit, now)
              /\ gated' = [gated EXCEPT ![c] = TRUE]
              /\ UNCHANGED <<locked, wake, slept>>
         [] g.kind = "sleep" ->
              /\ cstate' = [cstate EXCEPT ![c] = "sleeping"]
              /\ wake' = [wake EXCEPT ![c] = g.until]
              /\ slept' = [slept EXCEPT ![c] = TRUE]
              /\ locked' = TRUE
              /\ UNCHANGED <<pass_log, gated>>
         [] g.kind = "raise" ->
              /\ cstate' = [cstate EXCEPT ![c] = "idle"]
              /\ UNCHANGED <<locked, wake, slept, pass_log, gated>>
    /\ UNCHANGED <<notRateVars, limVars, waited>>

\* asyncio.sleep(wait_time + 5) is over: the lock is released, the caller returns
RateWake(c) ==
    /\ cstate[c] = "sleeping"
    /\ now >= wake[c]
    /\ locked' = FALSE
    /\ cstate' = [cstate EXCEPT ![c] = "inflight"]
    /\ waited' = waited \cup {seen[c].reset_at}
    /\ pass_log' = LogPass(current_limit, now)
    /\ gated' = [gated EXCEPT ![c] = TRUE]
    /\ UNCHANGED <<notRateVars, limVars, wake, seen, ahead, slept>>

\* the request of caller c is answered; update() stores the report, if any
RateRespond(c) ==
    /\ cstate[c] = "inflight"
    /\ \E rep \in RateReports(now) :
          current_limit' = IF rep.present THEN Update(rep) ELSE current_limit
    /\ cstate' = [cstate EXCEPT ![c] = "idle"]
    /\ seen' = [seen EXCEPT ![c] = NoLimit]
    /\ ahead' = [ahead EXCEPT ![c] = FALSE]
    /\ slept' = [slept EXCEPT ![c] = FALSE]
    /\ wake' = [wake EXCEPT ![c] = 0]
    /\ gated' = [gated EXCEPT ![c] = FALSE]
    /\ UNCHANGED <<notRateVars, now, locked, waited, pass_log>>

RateTick ==
    /\ now < MaxTime
    /\ now' = now + 1
    /\ UNCHANGED <<notRateVars, current_limit, rateVars>>

RateNext ==
    \/ \E c \in Callers : RateBlock(c)
    \/ \E c \in Callers : RateCheck(c)
    \/ \E c \in Callers : RateWake(c)
    \/ \E c \in Callers : RateRespond(c)
    \/ RateTick

InitRate == CrawlIdle /\ LimiterIdle /\ RetryIdle /\ PartIdle /\ StoreIdle /\ RateInit

SpecRate == InitRate /\ [][RateNext]_vars

\* get_rate_limit_status: the request goes out as soon as the caller asks
StatusRequest(c) ==
    /\ cstate[c] = "idle"
    /\ cstate' = [cstate EXCEPT ![c] = "status"]
    /\ UNCHANGED <<notRateVars, limVars, locked, wake, seen, ahead, slept, waited,
                   pass_log, gated>>

\* its answer is returned to the caller; the rate limiter is not told
StatusRespond(c) ==
    /\ cstate[c] = "status"
    /\ cstate' = [cstate EXCEPT ![c] = "idle"]
    /\ UNCHANGED <<notRateVars, limVars, locked, wake, seen, ahead, slept, waited,
                   pass_log, gated>>

\* the callers of one GitHubClient: queries and status requests
ClientNext ==
    \/ \E c \in Callers : RateBlock(c)
    \/ \E c \in Callers : RateCheck(c)
    \/ \E c \in Callers : RateWake(c)
    \/ \E c \in Callers : RateRespond(c)
    \/ \E c \in Callers : StatusRequest(c)
    \/ \E c \in Callers : StatusRespond(c)
    \/ RateTick

InitClient == CrawlIdle /\ LimiterIdle /\ RetryIdle /\ PartIdle /\ StoreIdle /\ RateInit

SpecClient == InitClient /\ [][ClientNext]_vars

-----------------------------------------------------------------------------
(* Properties of the RateLimiter (SpecRate) *)

NoRepeat(log) == \A i, j \in 1..Len(log) : i # j => log[i] # log[j]

\* C9: with concurrent callers, in every interleaving: at most one caller is
\* inside the check-and-sleep section; no two callers get past the gate while
\* the quota is exhausted and its reset instant not reached; and no caller
\* sleeps for a reset instant that a caller has already slept out.
C9_SerializedGate ==
    /\ Cardinality({c \in Callers : cstate[c] = "sleeping"}) <= 1
    /\ NoRepeat(pass_log)
    /\ \A c \in Callers : cstate[c] = "sleeping" => seen[c].reset_at \notin waited

\* a caller sleeps in the section while another queues for the lock, after a
\* reset has been slept out and one caller has passed during an exhausted quota
C9_Witness ==
    /\ \E c, d \in Callers : cstate[c] = "sleeping" /\ cstate[d] = "waiting"
    /\ waited # {}
    /\ pass_log # <<>>

\* C34: whatever reports arrive and however the callers' responses
\* interleave, the stored remaining never increases between two consecutive
\* resets: from one stored limit to the next within the same quota window
\* (the same reset instant) remaining does not grow.
C34_RemainingNeverIncreases ==
    [][(/\ current_limit.known
        /\ current_limit'.known
        /\ current_limit'.reset_at = current_limit.reset_at)
       => current_limit'.remaining <= current_limit.remaining]_vars

-----------------------------------------------------------------------------
(* The query lists of CrawlerService, as star-count partitions *)

MaxStars == 100010       \* star counts 0..MaxStars are tried

\* "stars:n", "stars:a..b" and "stars:>n"
StarsEq(n) == [kind |-> "eq", lo |-> n, hi |-> n]
StarsRange(a, b) == [kind |-> "range", lo |-> a, hi |-> b]
StarsGt(n) == [kind |-> "gt", lo |-> n, hi |-> n]

\* GitHub's search qualifier: does a repository with s stars match the query
Matches(q, s) ==
    CASE q.kind = "eq"    -> s = q.lo
      [] q.kind = "range" -> q.lo <= s /\ s <= q.hi
      [] q.kind = "gt"    -> s > q.lo

\* the values of Python's range(start, stop, step), step > 0
PyRange(start, stop, step) ==
    [i \in 1..((stop - start + step - 1) \div step) |-> start + (i - 1) * step]

\* for start in range(a, b, step): queries.append(f"stars:{start}..{start + w}")
Ranges(a, b, step, w) ==
    LET starts == PyRange(a, b, step)
    IN [i \in 1..Len(starts) |-> StarsRange(starts[i], starts[i] + w)]

VeryLow == [i \in 1..11 |-> StarsEq(i - 1)]           \* range(0, 11)
LowOverlapping == Ranges(11, 101, 10, 10)
Low == Ranges(11, 101, 10, 9)
Medium == Ranges(101, 1001, 50, 49)
Higher == Ranges(1001, 10001, 500, 499)
VeryHigh == Ranges(10001, 50001, 1000, 999)
Extreme == <<StarsRange(50001, 75000), StarsRange(75001, 100000), StarsGt(100000)>>

_get_optimized_queries_for_100k ==
    VeryLow \o Low \o Medium \o Higher \o VeryHigh \o Extreme

_get_default_queries ==
    <<StarsRange(0, 100), StarsRange(101, 500), StarsRange(501, 1000),
      StarsRange(1001, 5000), StarsRange(5001, 10000), StarsRange(10001, 50000),
      StarsRange(50001, 100000), StarsGt(100000)>>

QueryList(which) ==
    IF which = "optimized" THEN _get_optimized_queries_for_100k ELSE _get_default_queries

PartInit ==
    /\ qlist \in {"optimized", "default"}
    /\ star = 0

\* the next star count is looked up in the list
PartProbe ==
    /\ star < MaxStars
    /\ star' = star + 1
    /\ UNCHANGED <<notPartVars, qlist>>

PartNext == PartProbe

InitPart == CrawlIdle /\ LimiterIdle /\ RetryIdle /\ RateIdle /\ StoreIdle /\ PartInit

SpecPart == InitPart /\ [][PartNext]_vars

\* the queries of the list that a repository with s stars matches
Covering(which, s) ==
    {i \in 1..Len(QueryList(which)) : Matches(QueryList(which)[i], s)}

\* C10: in both query lists every star count from 0 upward is matched by
\* exactly one query: the star ranges are pairwise disjoint and leave no gap
\* (the bounded ranges end by MaxStars and exactly one query is open-ended).
C10_PartitionCovers ==
    /\ Cardinality(Covering(qlist, star)) = 1
    /\ \A i \in 1..Len(QueryList(qlist)) :
          QueryList(qlist)[i].kind # "gt" => QueryList(qlist)[i].hi < MaxStars
    /\ Cardinality({i \in 1..Len(QueryList(qlist)) : QueryList(qlist)[i].kind = "gt"}) = 1

\* a count of the open-ended tail, above every bounded range
C10_Witness ==
    /\ qlist = "optimized" /\ star > 100000
    /\ Covering(qlist, star) = {Len(_get_optimized_queries_for_100k)}

\* crawl_repositories(self, queries=None, max_repos=100_000, ...) and the cap
\* it puts on each shard, `repos_per_query = 1000`, at their real values
DefaultMaxRepos == 100000
GraphQLReposPerQuery == 1000

\* the most a run over the list can save: each shard gives at most
\* min(repos_per_query, remaining) records
SumOfShardCaps(which) == Len(QueryList(which)) * GraphQLReposPerQuery

\* C32: the list used when no queries are given holds at least 100 queries,
\* so that at 1000 records a query the shard caps sum to the default target
\* of 100,000 records.
C32_DefaultListReachesTarget ==
    qlist = "optimized" =>
        /\ Len(QueryList(qlist)) >= 100
        /\ SumOfShardCaps(qlist) >= DefaultMaxRepos

-----------------------------------------------------------------------------
(* Properties of the crawl (Spec) *)

RECURSIVE SumRepo(_)
SumRepo(n) == IF n = 0 THEN 0 ELSE repo[n] + SumRepo(n - 1)

\* the items the remote holds across all queries of the run
Available == SumRepo(NumQueries)

\* C1: on a fresh CrawlerService the cumulative number of records passed to
\* upsert_repositories never exceeds the target max_repos, at any point of
\* the run, across queries, pages and retries.
C1_TargetNeverExceeded == upserted <= max_repos

\* the target is met exactly by batches of more than one query
C1_Witness ==
    /\ cpc = "paginate" /\ idx = 2
    /\ total_batches >= 2
    /\ upserted = max_repos /\ max_repos > repos_per_query

\* C2: a run in which a remote failure (authorization error, or retries
\* exhausted) ended a query's fetch returns success = false with an error.
C2_FailureIsReported ==
    (cpc = "returned" /\ shard_failed) => result.status = "failure"

\* C3: after a remote failure has ended a query's fetch the run is aborted:
\* it is never again inside a query's fetch (no later query is started, no
\* request is prepared, sent or answered).
C3_FailureAbortsRun ==
    shard_failed => cpc \in {"loop", "final", "returned"}

\* C4: a successful run reports total_crawled = min(max_repos, A), A being
\* the number of items the remote holds across the queries of the run.
C4_TotalIsMinTargetAvailable ==
    result.status = "success" => result.total_crawled = Min(max_repos, Available)

\* C11: crawl_repositories never raises: every failure of a run, the count
\* read at the start included, ends in a returned result.
C11_NeverRaises == result.status # "raised"

\* C12: a failure result reports exactly the records and the batches whose
\* upsert had completed before the failure (fresh CrawlerService): the batch
\* whose upsert raised is not counted and nothing counted earlier is lost.
C12_FailureKeepsProgress ==
    result.status = "failure" =>
        /\ result.total_crawled = saved_ok
        /\ result.total_batches = batches_ok

\* an upsert raised after at least one batch had been written
C12_Witness ==
    /\ result.status = "failure" /\ upsert_failed
    /\ batches_ok >= 1 /\ result.total_crawled = saved_ok
    /\ upserted > saved_ok

\* C13: once upsert_repositories has raised the run is over: it has returned
\* a failure result carrying the error, and no request or upsert follows
\* (every record passed to upsert since is that of the failed call).
C13_UpsertFailureAborts ==
    upsert_failed =>
        /\ cpc = "returned"
        /\ result.status = "failure" /\ result.error = DbError.msg
        /\ upserted - saved_ok <= config_batch_size

\* the upsert raised while the query had a further page and a later query was left
C13_Witness ==
    /\ upsert_failed /\ cpc = "returned" /\ result.status = "failure"
    /\ response.hasNextPage /\ idx < NumQueries

\* C14: a page of n nodes of which k fail to convert (0 < k < n) is handed
\* to the consumer as one batch of the n - k parsed records, in their order:
\* the step that parses such a page ends at the yield with that batch.
C14_PartialPageIsYielded ==
    [][(cpc = "parse" /\ Len(Parsed(response.nodes)) > 0
                      /\ Len(Parsed(response.nodes)) < Len(response.nodes))
       => (cpc' = "upsert" /\ batch' = Parsed(response.nodes))]_vars

CeilDiv(a, b) == (a + b - 1) \div b

\* C15: the first query holding M parsable items, M at most the per-query cap
\* and the target, every request answered: each batch written has
\* config_batch_size records but the last, which has what is left of M, and
\* when the query is done total_crawled = M and total_batches = ceil(M / B).
C15_BatchSequence ==
    (/\ idx = 1 /\ repo[1] <= Min(repos_per_query, max_repos)
     /\ ~shard_failed /\ ~upsert_failed /\ ~parse_failed)
    => /\ cpc = "upsert" => Len(batch) = Min(config_batch_size, repo[1] - saved_ok)
       /\ cpc = "loop" => /\ total_saved = repo[1]
                          /\ total_batches = CeilDiv(repo[1], config_batch_size)

-----------------------------------------------------------------------------
(* The store: SQLiteRepository and PostgreSQLRepository, each on its one
   connection, and the use crawl_repositories makes of it *)

MaxId == 2               \* record ids 1..MaxId
MaxClock == 1            \* the database's clock stops here

NoTime == -1             \* last_crawled_at = None

Names == {"a/x", "b/y"}  \* full names: fewer than ids, so that two ids claim one
StarCounts == {10, 20}
BatchLens == {0, 1, 2}   \* a batch of two can repeat an id and fail half-way
Backends == {"sqlite", "postgres"}

\* Repository objects whose last_crawled_at is lc
Records(lc) ==
    [id : 1..MaxId, full_name : Names, star_count : StarCounts,
     last_crawled_at : {lc}]

\* the lists of Repository objects whose last_crawled_at is lc: the time they
\* were built at (from_github_response, the tests), or NoTime.  A record
\* without the field is stored as one built at the time of the call is, so
\* the calls made at time t take Batches(t) and reach every table
Batches(lc) == UNION {[1..n -> Records(lc)] : n \in BatchLens}

\* repo.last_crawled_at if repo.last_crawled_at else datetime.now()
CrawledAt(r, t) == IF r.last_crawled_at = NoTime THEN t ELSE r.last_crawled_at

HasId(tbl, i) == \E x \in tbl : x.id = i
HasName(tbl, n) == \E x \in tbl : x.full_name = n

NewRow(r, t) ==
    [id |-> r.id, full_name |-> r.full_name, star_count |-> r.star_count,
     updated_at |-> t, last_crawled_at |-> CrawledAt(r, t)]

\* created_at is written by its column default only and read by nothing
\* but get_all_repositories: it is left out of the rows.
\* INSERT ... VALUES (r) ON CONFLICT(id) DO UPDATE SET star_count,
\* last_crawled_at, updated_at, at time t: a stored id is updated (its
\* full_name is left as stored); a new id whose full_name is stored under
\* another id violates UNIQUE(full_name) and the statement fails
UpsertRowAccumulates(tbl, r, t) ==
    IF HasId(tbl, r.id)
    THEN [ok |-> TRUE,
          table |-> {IF x.id = r.id
                     THEN [x EXCEPT !.star_count = @ + r.star_count,
                                    !.last_crawled_at = CrawledAt(r, t),
                                    !.updated_at = t]
                     ELSE x : x \in tbl}]
    ELSE IF HasName(tbl, r.full_name)
         THEN [ok |-> FALSE, table |-> tbl]
         ELSE [ok |-> TRUE, table |-> tbl \cup {NewRow(r, t)}]
UpsertRowNoUniqueName(tbl, r, t) ==
    IF HasId(tbl, r.id)
    THEN [ok |-> TRUE,
          table |-> {IF x.id = r.id
                     THEN [x EXCEPT !.star_count = r.star_count,
                                    !.last_crawled_at = CrawledAt(r, t),
                                    !.updated_at = t]
                     ELSE x : x \in tbl}]
    ELSE [ok |-> TRUE, table |-> tbl \cup {NewRow(r, t)}]
UpsertRowOrReplace(tbl, r, t) ==
    [ok |-> TRUE,
     table |-> {x \in tbl : x.id # r.id /\ x.full_name # r.full_name} \cup {NewRow(r, t)}]
UpsertRow(tbl, r, t) ==
    IF HasId(tbl, r.id)
    THEN [ok |-> TRUE,
          table |-> {IF x.id = r.id
                     THEN [x EXCEPT !.star_count = r.star_count,
                                    !.last_crawled_at = CrawledAt(r, t),
                                    !.updated_at = t]
                     ELSE x : x \in tbl}]
    ELSE IF HasName(tbl, r.full_name)
         THEN [ok |-> FALSE, table |-> tbl]
         ELSE [ok |-> TRUE, table |-> tbl \cup {NewRow(r, t)}]

\* sqlite: `for repo in repos: await conn.execute(...)` from the k-th record;
\* a failing statement ends the call, what the earlier ones wrote stays
RECURSIVE SqliteExecute(_, _, _, _)
SqliteExecute(tbl, repos, t, k) ==
    IF k > Len(repos) THEN [ok |-> TRUE, table |-> tbl]
    ELSE LET u == UpsertRow(tbl, repos[k], t)
         IN IF u.ok THEN SqliteExecute(u.table, repos, t, k + 1)
            ELSE [ok |-> FALSE, table |-> tbl]

\* postgres: execute_values sends one statement with all the VALUES; a row
\* proposed a second time in it is an error, and a failing statement writes
\* nothing
RECURSIVE PgExecute(_, _, _, _, _)
PgExecute(tbl, repos, t, k, touched) ==
    IF k > Len(repos) THEN [ok |-> TRUE, table |-> tbl]
    ELSE IF repos[k].id \in touched THEN [ok |-> FALSE, table |-> tbl]
    ELSE LET u == UpsertRow(tbl, repos[k], t)
         IN IF u.ok THEN PgExecute(u.table, repos, t, k + 1, touched \cup {repos[k].id})
            ELSE [ok |-> FALSE, table |-> tbl]

Store == [repositories |-> repositories, committed |-> committed, aborted |-> aborted]

\* upsert_repositories(repos) at time t on store st of backend b: whether the
\* call returned, and the store it leaves.  commit() is reached only when
\* every statement succeeded; nothing rolls back after an error, so sqlite
\* keeps the rows of the earlier statements in the open transaction and
\* postgres keeps the transaction in the failed state, in which every later
\* statement fails
upsert_repositories(b, st, repos, t) ==
    IF Len(repos) = 0 THEN [ok |-> TRUE, store |-> st]
    ELSE IF b = "sqlite"
    THEN LET x == SqliteExecute(st.repositories, repos, t, 1)
         IN IF x.ok
            THEN [ok |-> TRUE, store |-> [repositories |-> x.table,
                                          committed |-> x.table, aborted |-> FALSE]]
            ELSE [ok |-> FALSE, store |-> [st EXCEPT !.repositories = x.table]]
    ELSE IF st.aborted THEN [ok |-> FALSE, store |-> st]
    ELSE LET x == PgExecute(st.repositories, repos, t, 1, {})
         IN IF x.ok
            THEN [ok |-> TRUE, store |-> [repositories |-> x.table,
                                          committed |-> x.table, aborted |-> FALSE]]
            ELSE [ok |-> FALSE, store |-> [st EXCEPT !.aborted = TRUE]]

\* SELECT COUNT(*) FROM repositories; it fails in a failed postgres transaction
get_repository_count(st) == Cardinality(st.repositories)
CountRaises(st) == st.aborted

\* get_all_repositories: the rows read (their order is not modelled)
get_all_repositories(st) == st.repositories

StoredIds(tbl) == {x.id : x \in tbl}
BatchIds(repos) == {repos[i].id : i \in 1..Len(repos)}

StoreInit ==
    /\ backend \in Backends
    /\ repositories = {}
    /\ committed = {}
    /\ aborted = FALSE
    /\ sclock = 0
    /\ rs = "none"
    /\ start_count = 0
    /\ at_start = {}
    /\ fresh = {}
    /\ run_result = NoRun

RunFailed == [status |-> "failure", final_count |-> 0, new_repos |-> 0]
RunRaised == [status |-> "raised", final_count |-> 0, new_repos |-> 0]

\* one call of upsert_repositories at the clock's time, by a run of
\* crawl_repositories or by another caller of the store while none runs
StoreUpsert ==
    /\ rs \in {"none", "running"}
    /\ \E repos \in Batches(sclock) :
         LET res == upsert_repositories(backend, Store, repos, sclock)
         IN /\ repositories' = res.store.repositories
            /\ committed' = res.store.committed
            /\ aborted' = res.store.aborted
            /\ IF rs = "none" THEN UNCHANGED <<rs, fresh, run_result>>
               ELSE IF res.ok
                    THEN /\ fresh' = fresh \cup (BatchIds(repos) \ at_start)
                         /\ UNCHANGED <<rs, run_result>>
                    ELSE /\ rs' = "returned"
                         /\ run_result' = RunFailed
                         /\ UNCHANGED fresh
    /\ UNCHANGED <<notStoreVars, backend, sclock, start_count, at_start>>

\* start_count = await self.database.get_repository_count()
StoreRunStart ==
    /\ rs = "none"
    /\ IF CountRaises(Store)
       THEN /\ rs' = "returned"
            /\ run_result' = RunRaised
            /\ UNCHANGED <<start_count, at_start>>
       ELSE /\ rs' = "running"
            /\ start_count' = get_repository_count(Store)
            /\ at_start' = StoredIds(repositories)
            /\ UNCHANGED run_result
    /\ UNCHANGED <<notStoreVars, backend, repositories, committed, aborted, sclock, fresh>>

\* final_count = await self.database.get_repository_count(); return {...}
StoreRunFinish ==
    /\ rs = "running"
    /\ rs' = "returned"
    /\ run_result' = [status |-> "success",
                      final_count |-> get_repository_count(Store),
                      new_repos |-> get_repository_count(Store) - start_count]
    /\ UNCHANGED <<notStoreVars, backend, repositories, committed, aborted, sclock,
                   start_count, at_start, fresh>>

\* the caller has read the result: the call and its locals are over
StoreRunReturn ==
    /\ rs = "returned"
    /\ rs' = "none"
    /\ start_count' = 0
    /\ at_start' = {}
    /\ fresh' = {}
    /\ run_result' = NoRun
    /\ UNCHANGED <<notStoreVars, backend, repositories, committed, aborted, sclock>>

StoreTick ==
    /\ sclock < MaxClock
    /\ sclock' = sclock + 1
    /\ UNCHANGED <<notStoreVars, backend, repositories, committed, aborted, rs,
                   start_count, at_start, fresh, run_result>>

StoreNext ==
    \/ StoreUpsert
    \/ StoreRunStart
    \/ StoreRunFinish
    \/ StoreRunReturn
    \/ StoreTick

InitStore == CrawlIdle /\ LimiterIdle /\ RetryIdle /\ RateIdle /\ PartIdle /\ StoreInit

SpecStore == InitStore /\ [][StoreNext]_vars

\* the store used by its callers alone, as test_database.py does, no run of
\* crawl_repositories among them
UpsertNext ==
    \/ StoreUpsert
    \/ StoreTick

InitUpsert == CrawlIdle /\ LimiterIdle /\ RetryIdle /\ RateIdle /\ PartIdle /\ StoreInit

SpecUpsert == InitUpsert /\ [][UpsertNext]_vars

-----------------------------------------------------------------------------
(* GitHubClient.search_repositories called by itself, as test_github_client.py
   does: `async for batch in client.search_repositories(query, max_repos)` *)

SearchInit ==
    /\ repo \in [Queries -> 0..MaxItems]
    /\ max_repos = 0
    /\ cpc = "gen"
    /\ total_saved = 0
    /\ total_batches = 0
    /\ idx = 1
    /\ query_limit \in {Unlimited} \cup 0..MaxTarget
    /\ result = NoResult
    /\ cursor = None
    /\ total_fetched = 0
    /\ batch_size = config_batch_size
    /\ response = NoResponse
    /\ batch = <<>>
    /\ attempt = 0
    /\ current_limit = NoLimit
    /\ now = 0
    /\ upserted = 0
    /\ shard_failed = FALSE
    /\ saved_ok = 0
    /\ batches_ok = 0
    /\ upsert_failed = FALSE
    /\ parse_failed = FALSE

\* total_repos += len(batch)
SearchConsume ==
    /\ cpc = "upsert"
    /\ upserted' = upserted + Len(batch)
    /\ batch' = <<>>
    /\ cpc' = "paginate"
    /\ UNCHANGED <<notCrawlVars, inputVars, total_saved, total_batches, idx, query_limit,
                   result, cursor, total_fetched, batch_size, response, attempt,
                   current_limit, now, shard_failed, storeObs, parse_failed>>

SearchNext ==
    \/ GenLoop
    \/ AttemptGateRaises
    \/ AttemptFails
    \/ AttemptSucceeds
    \/ ParsePage
    \/ SearchConsume
    \/ Paginate

InitSearch == SearchInit /\ RetryIdle /\ RateIdle /\ PartIdle /\ StoreIdle

SpecSearch == InitSearch /\ [][SearchNext]_vars

\* crawl_repositories is called again on the same CrawlerService with the
\* same arguments: the locals of the call are new, while self.total_saved and
\* self.total_batches are assigned by __init__ alone and keep what the earlier
\* runs left, as the client keeps its RateLimiter
CrawlAgain ==
    /\ cpc = "returned"
    /\ cpc' = "call"
    /\ idx' = 0
    /\ query_limit' = 0
    /\ result' = NoResult
    /\ cursor' = None
    /\ total_fetched' = 0
    /\ batch_size' = config_batch_size
    /\ response' = NoResponse
    /\ batch' = <<>>
    /\ attempt' = 0
    /\ upserted' = 0
    /\ shard_failed' = FALSE
    /\ saved_ok' = 0
    /\ batches_ok' = 0
    /\ upsert_failed' = FALSE
    /\ parse_failed' = FALSE
    /\ UNCHANGED <<notCrawlVars, inputVars, total_saved, total_batches, current_limit, now>>

RerunNext ==
    \/ CrawlNext
    \/ CrawlAgain

InitRerun == CrawlInit /\ RetryIdle /\ RateIdle /\ PartIdle /\ StoreIdle

SpecRerun == InitRerun /\ [][RerunNext]_vars

\* C21: every page response with at least one item that parses, whether or
\* not it carries a rateLimit report, is yielded as one batch of exactly its
\* parsed records, which the orchestrator then upserts.
C21_ParsablePageIsYielded ==
    [][(cpc = "parse" /\ Len(Parsed(response.nodes)) > 0)
       => (cpc' = "upsert" /\ batch' = Parsed(response.nodes))]_vars

\* C22: every request of a shard asks for min(configured batch size, shard
\* limit - records fetched so far in the shard) items, never zero or fewer.
C22_RequestSize ==
    cpc = "attempt" =>
        /\ batch_size = Min(config_batch_size, query_limit - total_fetched)
        /\ batch_size >= 1

\* the last request of a shard, smaller than the configured batch size
C22_Witness ==
    /\ cpc = "attempt"
    /\ total_fetched > 0
    /\ batch_size = query_limit - total_fetched
    /\ batch_size < config_batch_size

\* C23: a page that yields no parsed record, one that reports a further page
\* included, ends the shard's fetch.
C23_ZeroParsedEndsShard ==
    [][(cpc = "parse" /\ Len(Parsed(response.nodes)) = 0 /\ response.hasNextPage)
       => cpc' = "loop"]_vars

\* C24: the first request of a shard carries no cursor, every later one the
\* endCursor of the response before it in that shard (a retry repeats the
\* request); no cursor passes from one shard to the next; after a response
\* with hasNextPage = false the shard issues no further request.
C24_CursorChain ==
    [][/\ cpc' = "attempt" => cursor' = response'.endCursor
       /\ idx' # idx => (cursor' = None /\ response' = NoResponse)
       /\ (cpc = "paginate" /\ ~response.hasNextPage) => cpc' = "loop"]_vars

\* a later request of the second shard, carrying the cursor of its own
\* preceding response
C24_Witness ==
    /\ idx = 2
    /\ cpc = "attempt"
    /\ cursor # None
    /\ cursor = response.endCursor
    /\ response.hasNextPage

Ascending(seq) == \A i, j \in 1..Len(seq) : i < j => seq[i] < seq[j]

\* C25: the batch awaiting its upsert is the one of the page fetched last,
\* its records in page order and after everything fetched before it, and no
\* request is prepared or in flight while a batch awaits its upsert: every
\* batch handed over earlier has been upserted.
C25_SequentialBatches ==
    /\ cpc \in {"gen", "attempt", "parse"} =>
          /\ batch = <<>>
          /\ upserted = saved_ok
          /\ saved_ok = total_saved
    /\ cpc = "upsert" =>
          /\ batch # <<>>
          /\ Ascending(batch)
          /\ \A i \in 1..Len(batch) :
                /\ batch[i] > RepoId(idx, cursor)
                /\ batch[i] <= RepoId(idx, response.endCursor)
          /\ upserted = saved_ok

\* the second page of a shard awaits its upsert, the first one is saved
C25_Witness ==
    /\ cpc = "upsert"
    /\ cursor # None
    /\ Len(batch) = 2
    /\ saved_ok > 0

\* C26, as the specification states it: shards start one at a time in list
\* order; once the saved count has reached the target no shard is started
\* and no request issued, and the run completes with success = true.
C26_TargetReachedSucceeds ==
    [][/\ idx' # idx => (idx' = idx + 1 /\ cpc = "loop" /\ total_saved < max_repos)
       /\ cpc' = "attempt" => total_saved' < max_repos
       /\ (cpc = "loop" /\ total_saved >= max_repos) => cpc' = "final"
       /\ (cpc = "final" /\ total_saved >= max_repos) => result'.status = "success"]_vars

\* C26, amended: shards start one at a time in list order; once the saved
\* count has reached the target no shard is started and no request issued;
\* the run then reads the final count and completes with success = true, or,
\* when that read raises, with the failure result.
C26_TargetReachedStops ==
    [][/\ idx' # idx => (idx' = idx + 1 /\ cpc = "loop" /\ total_saved < max_repos)
       /\ cpc' = "attempt" => total_saved' < max_repos
       /\ (cpc = "loop" /\ total_saved >= max_repos) => cpc' = "final"
       /\ (cpc = "final" /\ total_saved >= max_repos) =>
             result' \in {Success, Failure(DbError)}]_vars

\* the target was reached in the first shard and the run succeeded
C26_Witness ==
    /\ cpc = "returned"
    /\ result.status = "success"
    /\ max_repos > 0
    /\ total_saved >= max_repos
    /\ idx = 1

\* C27: a shard contributes at most min(repos_per_query, target - records
\* saved when it started) records; a query that matches more stops at that
\* cap without raising and the next shard follows.
C27_ShardCap ==
    cpc \in {"gen", "attempt", "parse", "upsert", "paginate"} =>
        LET saved_at_start == total_saved - (total_fetched - Len(batch))
        IN /\ query_limit = Min(repos_per_query, max_repos - saved_at_start)
           /\ total_fetched <= query_limit
           /\ upsert_failed \/ total_saved - saved_at_start <= query_limit

\* the first shard matched more than the cap, gave exactly the cap, and the
\* second shard is under way
C27_Witness ==
    /\ idx = 2
    /\ cpc = "attempt"
    /\ repo[1] > repos_per_query
    /\ total_saved = repos_per_query
    /\ result = NoResult

\* C33: the total_crawled and total_batches a run reports count only the
\* records and batches written during that run, and the loop over the shards
\* is left before the last shard only when that run's own count has reached
\* the target, also when crawl_repositories is invoked again on the same
\* CrawlerService.
C33_CountersPerRun ==
    /\ result.status \in {"success", "failure"} =>
          /\ result.total_crawled = saved_ok
          /\ result.total_batches = batches_ok
    /\ (cpc = "final" /\ idx < NumQueries) => saved_ok >= max_repos

\* C35: against a remote whose shards have finitely many pages and with a
\* finite shard list, whatever mix of successful, failing and retried
\* requests occurs, every call of crawl_repositories ends, and once its loop
\* over the shards is entered it returns a result, success or failure: the
\* pagination loop of each shard and the loop over the shards terminate.
C35_CrawlReturns ==
    /\ <>(cpc = "returned")
    /\ (cpc = "loop") ~> (cpc = "returned" /\ result.status \in {"success", "failure"})

\* the run has returned after a shard lost a request for good, a page held
\* an item that did not parse, and records of the last shard were saved
C35_Witness ==
    /\ cpc = "returned"
    /\ result.status = "success"
    /\ idx = NumQueries
    /\ shard_failed
    /\ parse_failed
    /\ saved_ok > 0

-----------------------------------------------------------------------------
(* Properties of the store (SpecUpsert, SpecStore) *)

\* what the table holds of each record apart from the times
Content(tbl) ==
    {[id |-> x.id, full_name |-> x.full_name, star_count |-> x.star_count] : x \in tbl}

CrawlTimes(tbl) == {[id |-> x.id, last_crawled_at |-> x.last_crawled_at] : x \in tbl}

EmptyStore == [repositories |-> {}, committed |-> {}, aborted |-> FALSE]

\* C16, as the specification states it: calling upsert_repositories with the
\* same batch twice leaves the same repository count and the same stored
\* field values for every record as calling it once.
C16_UpsertTwiceSameState ==
    \A lc \in {NoTime, sclock} : \A repos \in Batches(lc) :
        LET first == upsert_repositories(backend, Store, repos, sclock)
        IN \A t2 \in sclock..MaxClock :
              LET second == upsert_repositories(backend, first.store, repos, t2)
              IN get_all_repositories(second.store) = get_all_repositories(first.store)

\* C16, amended: the second call leaves the same repository count and, for
\* every record, the same id, full_name and star_count, and the same
\* last_crawled_at when the records of the batch carry one; when the second
\* call returns, updated_at (and last_crawled_at of records that carry none)
\* are the time of the second call.
C16_UpsertTwiceSameContent ==
    \A lc \in {NoTime, sclock} : \A repos \in Batches(lc) :
        LET first == upsert_repositories(backend, Store, repos, sclock)
            once == get_all_repositories(first.store)
        IN \A t2 \in sclock..MaxClock :
              LET second == upsert_repositories(backend, first.store, repos, t2)
                  twice == get_all_repositories(second.store)
              IN /\ Cardinality(twice) = Cardinality(once)
                 /\ Content(twice) = Content(once)
                 /\ lc # NoTime => CrawlTimes(twice) = CrawlTimes(once)
                 /\ second.ok =>
                      \A x \in twice : x.id \in BatchIds(repos) => x.updated_at = t2

\* the table is what a batch of two records left at time 0, time has passed,
\* and the same batch upserted again changes updated_at and nothing else
C16_Witness ==
    /\ sclock > 0
    /\ \E repos \in Batches(0) :
         /\ Len(repos) = 2
         /\ repos[1].id # repos[2].id
         /\ upsert_repositories(backend, EmptyStore, repos, 0).ok
         /\ repositories = upsert_repositories(backend, EmptyStore, repos, 0).store.repositories
         /\ upsert_repositories(backend, Store, repos, sclock).ok
         /\ upsert_repositories(backend, Store, repos, sclock).store.repositories
               # repositories
         /\ Content(upsert_repositories(backend, Store, repos, sclock).store.repositories)
               = Content(repositories)

\* C17, as the specification states it: an upsert of a record whose id is
\* stored leaves the count unchanged and replaces star_count; an upsert of a
\* record whose id is not stored raises the count by exactly one;
\* get_all_repositories returns each stored id exactly once.
C17_UpsertCountsAndReplaces ==
    \A lc \in {NoTime, sclock} : \A r \in Records(lc) :
        LET res == upsert_repositories(backend, Store, <<r>>, sclock)
            after == get_all_repositories(res.store)
        IN /\ HasId(repositories, r.id) =>
                /\ get_repository_count(res.store) = get_repository_count(Store)
                /\ \A x \in after : x.id = r.id => x.star_count = r.star_count
           /\ ~HasId(repositories, r.id) =>
                get_repository_count(res.store) = get_repository_count(Store) + 1
           /\ \A x, y \in after : x.id = y.id => x = y

\* C30: a call of upsert_repositories that fails part-way through its batch
\* leaves none of the batch's records visible to later reads on the same
\* store.
C30_BatchAllOrNothing ==
    \A repos \in Batches(sclock) :
        LET res == upsert_repositories(backend, Store, repos, sclock)
        IN ~res.ok => get_all_repositories(res.store) = get_all_repositories(Store)

\* C19: a run that succeeds, nothing else writing meanwhile, reports
\* new_repos = final_count - (the count read at the start), and that is the
\* number of distinct ids the run wrote that were not stored at the start.
C19_NewReposCountsNewIds ==
    run_result.status = "success" =>
        /\ run_result.new_repos = run_result.final_count - start_count
        /\ run_result.new_repos = Cardinality(fresh)

\* a successful run that found a record stored and added another
C19_Witness ==
    /\ run_result.status = "success"
    /\ start_count = 1
    /\ run_result.new_repos = 1
    /\ run_result.final_count = 2

\* C31: after any sequence of upsert_repositories calls, successful or
\* failed, no two stored records share an id and no two share a full_name,
\* in what the connection reads and in what is committed alike.
C31_UniqueKeys ==
    \A tbl \in {repositories, committed} :
        \A x, y \in tbl : (x.id = y.id \/ x.full_name = y.full_name) => x = y

\* two records are stored and a call has failed since: its transaction is
\* still open (sqlite, rows pending) or in the failed state (postgres)
C31_Witness ==
    /\ Cardinality(repositories) = 2
    /\ aborted \/ repositories # committed

-----------------------------------------------------------------------------
(* Properties of search_repositories called by itself (SpecSearch) *)

\* C18: for every max_repos that is not None, 0 included, the sizes of the
\* batches search_repositories yields sum to at most max_repos.
C18_LimitIsHonoured == query_limit # Unlimited => upserted <= query_limit

-----------------------------------------------------------------------------
(* Properties of the requests of one GitHubClient (SpecClient) *)

\* C20: every request GitHubClient sends, each attempt of _execute_query and
\* get_rate_limit_status alike, is preceded by a call of wait_if_needed that
\* has returned.
C20_EveryRequestIsGated ==
    \A c \in Callers : cstate[c] \in {"inflight", "status"} => gated[c]

====
